---- MODULE Spec2Model ----
(***************************************************************************)
(* AniCards: the Flask routes of src/main.py over the SQLAlchemy tables,   *)
(* the AniList fetch of src/src/Program/Anilist/AniListData.py and the     *)
(* milestone arithmetic of src/src/Program/generateSVGs.py.                *)
(*                                                                         *)
(* Strings whose characters matter (colours) are sequences of one-letter   *)
(* strings; StatCard.keys is a sequence of tokens in which "," is the      *)
(* separator character.                                                    *)
(***************************************************************************)
EXTENDS Integers, Sequences, FiniteSets, TLC

VARIABLES users, statcards, records, thr, resp, gen, produced, pure

vars == <<users, statcards, records, thr, resp, gen, produced, pure>>

dbvars == <<users, statcards, records>>

(***************************************************************************)
(* Bounds                                                                  *)
(***************************************************************************)
MaxGen == 2          \* generate_svgs requests in one behaviour
MaxFormKeys == 2     \* "keys" fields in one form
MaxColors == 5       \* "colors" fields in one form
MaxItems == 6        \* entries of one statistics list in an AniList response
MaxCount == 1        \* largest count of a statistics entry
MaxTopN == 6         \* largest top_n handed to get_top_items
MaxValue == 3100     \* largest count handed to calculate_milestones


Min(a, b) == IF a < b THEN a ELSE b

Range(s) == {s[i] : i \in 1..Len(s)}

SeqsUpTo(S, n) == UNION {[1..m -> S] : m \in 0..n}

(***************************************************************************)
(* Colours: generate_svgs, src/main.py 187-201                             *)
(***************************************************************************)
Str000000 == <<"0", "0", "0", "0", "0", "0">>
Strfe428e == <<"f", "e", "4", "2", "8", "e">>
Str141321 == <<"1", "4", "1", "3", "2", "1">>
Stra9fef7 == <<"a", "9", "f", "e", "f", "7">>

default_colors == <<Strfe428e, Str141321, Stra9fef7, Strfe428e>>

RECURSIVE lstrip(_)
lstrip(s) == IF s # <<>> /\ Head(s) = "#" THEN lstrip(Tail(s)) ELSE s

\* form_colors comparing with 000000 before the '#' is removed
form_colors_raw(colors) ==
    LET stripped == [i \in 1..Len(colors) |-> lstrip(colors[i])]
    IN  IF stripped = <<>> \/ Len(stripped) # 4
        THEN default_colors
        ELSE [i \in 1..4 |-> IF colors[i] # Str000000
                             THEN stripped[i] ELSE default_colors[i]]

form_colors(colors) ==
    LET stripped == [i \in 1..Len(colors) |-> lstrip(colors[i])]
    IN  IF stripped = <<>> \/ Len(stripped) # 4
        THEN default_colors
        ELSE [i \in 1..4 |-> IF stripped[i] # Str000000
                             THEN stripped[i] ELSE default_colors[i]]

(***************************************************************************)
(* get_top_items: sorted(items, key=count, reverse=True)[:top_n].          *)
(* Python's sort is stable, also with reverse=True.                        *)
(***************************************************************************)
top_n_default == 5

RECURSIVE insert_desc(_, _)
insert_desc(x, s) ==
    IF s = <<>> THEN <<x>>
    ELSE IF Head(s).count >= x.count
         THEN <<Head(s)>> \o insert_desc(x, Tail(s))
         ELSE <<x>> \o s

RECURSIVE sorted_desc_from(_, _)
sorted_desc_from(items, acc) ==
    IF items = <<>> THEN acc
    ELSE sorted_desc_from(Tail(items), insert_desc(Head(items), acc))

sorted_desc(items) == sorted_desc_from(items, <<>>)

slice_to(s, n) == SubSeq(s, 1, Min(n, Len(s)))

\* get_top_items without the slice
get_top_items_unsliced(items, top_n) == sorted_desc(items)

get_top_items(items, top_n) == slice_to(sorted_desc(items), top_n)

(***************************************************************************)
(* calculate_milestones; the float dasharray/dashoffset are left out, the  *)
(* division of the percentage is kept as the flag zero_division.           *)
(***************************************************************************)
SeqMax(s, P(_), default) ==
    LET S == {s[i] : i \in {j \in 1..Len(s) : P(s[j])}}
    IN  IF S = {} THEN default ELSE CHOOSE m \in S : \A x \in S : x <= m

SeqMin(s, P(_), default) ==
    LET S == {s[i] : i \in {j \in 1..Len(s) : P(s[j])}}
    IN  IF S = {} THEN default ELSE CHOOSE m \in S : \A x \in S : m <= x

\* max_milestone without the "+ 1"
max_milestone_floor(v) == (v \div 1000) * 1000

max_milestone(v) == ((v \div 1000) + 1) * 1000

calculate_milestones(v) ==
    LET milestones == <<100, 250, 500, 750, 1000>>
                      \o [i \in 1..(max_milestone(v) \div 1000) |-> 1000 * i]
        previous == SeqMax(milestones, LAMBDA m : m < v, 0)
        current == SeqMin(milestones, LAMBDA m : m >= v, 100)
    IN  [previous_milestone |-> previous,
         current_milestone |-> current,
         zero_division |-> (current - previous = 0)]

(***************************************************************************)
(* Card types and form keys                                                *)
(***************************************************************************)
key_types == {"animeStats", "socialStats", "mangaStats", "animeGenres",
              "animeTags", "animeVoiceActors", "animeStudios", "animeStaff",
              "mangaGenres", "mangaTags", "mangaStaff"}

anime_list_keys == {"animeGenres", "animeTags", "animeVoiceActors",
                    "animeStudios", "animeStaff"}

manga_list_keys == {"mangaGenres", "mangaTags", "mangaStaff"}

key_mapping(key) ==
    CASE key = "animeStatsCheckbox" -> "animeStats"
      [] key = "mangaStatsCheckbox" -> "mangaStats"
      [] key = "socialStatsCheckbox" -> "socialStats"
      [] OTHER -> key

map_keys(keys) == [i \in 1..Len(keys) |-> key_mapping(keys[i])]

\* keys.sort(key=custom_order.index(x) if x in custom_order else 3): stable
process_rank(key) ==
    CASE key = "animeStats" -> 0
      [] key = "socialStats" -> 1
      [] key = "mangaStats" -> 2
      [] OTHER -> 3

RECURSIVE insert_by_rank(_, _)
insert_by_rank(x, s) ==
    IF s = <<>> THEN <<x>>
    ELSE IF process_rank(Head(s)) <= process_rank(x)
         THEN <<Head(s)>> \o insert_by_rank(x, Tail(s))
         ELSE <<x>> \o s

RECURSIVE sort_keys_from(_, _)
sort_keys_from(keys, acc) ==
    IF keys = <<>> THEN acc
    ELSE sort_keys_from(Tail(keys), insert_by_rank(Head(keys), acc))

sort_keys(keys) == sort_keys_from(keys, <<>>)

(***************************************************************************)
(* Python values: results of calls, dictionary values                      *)
(***************************************************************************)
Return(v) == [kind |-> "return", value |-> v]
Raise(e) == [kind |-> "raise", exc |-> e]

NoneValue == [none |-> TRUE, stats |-> FALSE, list |-> <<>>]
StatsValue == [none |-> FALSE, stats |-> TRUE, list |-> <<>>]
ListValue(l) == [none |-> FALSE, stats |-> FALSE, list |-> l]

\* dict.update
dict_update(d, e) ==
    [k \in (DOMAIN d) \cup (DOMAIN e) |-> IF k \in DOMAIN e THEN e[k] ELSE d[k]]

\* dict.get(key) with the default None
dict_get(d, k) == IF k \in DOMAIN d THEN d[k] ELSE NoneValue

RequestExceptions == {"RequestException", "Timeout", "ConnectionError"}

(***************************************************************************)
(* AniListData.py.  env is what AniList and the network do during the      *)
(* call: account (the id behind the username, or NoAccount), id_net (the   *)
(* USER_ID request), post (the statistics request) and items (every        *)
(* statistics list of the response).                                       *)
(***************************************************************************)
NoAccount == 0

get_user_id(env) ==
    CASE env.id_net = "timeout" -> Raise("Timeout")
      [] env.id_net = "error" -> Raise("Exception")
      [] env.account = NoAccount -> Raise("Exception")
      [] OTHER -> Return(env.account)

fetch_anime_data(items, keys) ==
    [k \in {"animeStats"} \cup (anime_list_keys \cap Range(keys)) |->
        IF k = "animeStats" THEN StatsValue
        ELSE ListValue(get_top_items(items, top_n_default))]

fetch_manga_data(items, keys) ==
    [k \in {"mangaStats"} \cup (manga_list_keys \cap Range(keys)) |->
        IF k = "mangaStats" THEN StatsValue
        ELSE ListValue(slice_to(sorted_desc(items), 5))]

fetch_social_data == [k \in {"socialStats"} |-> StatsValue]

fetch_anilist_data(keys, env) ==
    LET uid == get_user_id(env)
        data0 == [k \in Range(keys) |-> NoneValue]
        data1 == dict_update(data0, fetch_anime_data(env.items, keys))
        data2 == dict_update(data1, fetch_manga_data(env.items, keys))
        data3 == dict_update(data2, fetch_social_data)
    IN  CASE uid.kind = "raise" -> uid
          [] env.post = "network" -> Raise("RequestException")
          [] env.post \in {"server_error", "no_data", "missing_anime",
                           "missing_manga", "missing_social"} ->
                 Raise("ValueError")
          [] OTHER ->
                 Return([type |-> "tuple", data |-> data3, user_id |-> uid.value])

(***************************************************************************)
(* generate_svg: the card is identified by the request that rendered it    *)
(* and the colours it was rendered with.                                   *)
(***************************************************************************)
NoSvg == [svg |-> "None", gen |-> 0, colors |-> <<>>]

\* generate_svg without the test "if value is None"
generate_svg_of_none(title, value, colors, g) ==
    CASE title \in anime_list_keys \cup manga_list_keys /\ Len(value.list) < 5 ->
             Raise("IndexError")
      [] title \in key_types ->
             Return([svg |-> "card", gen |-> g, colors |-> colors])
      [] OTHER ->
             Return([svg |-> "placeholder", gen |-> g, colors |-> colors])

generate_svg(title, value, colors, g) ==
    CASE value.none -> Return(NoSvg)
      [] title \in anime_list_keys \cup manga_list_keys /\ Len(value.list) < 5 ->
             Raise("IndexError")
      [] title \in key_types ->
             Return([svg |-> "card", gen |-> g, colors |-> colors])
      [] OTHER ->
             Return([svg |-> "placeholder", gen |-> g, colors |-> colors])

(***************************************************************************)
(* Inputs of the functions checked on their own                            *)
(***************************************************************************)
ColorStrings == {<<>>, Str000000, <<"#", "#">> \o Str000000,
                 <<"#">> \o Str141321, <<"#", "a", "#">>}

ColorForms == SeqsUpTo(ColorStrings, MaxColors)

ItemLists ==
    UNION {{[i \in 1..n |-> [id |-> i, count |-> c[i]]] : c \in [1..n -> 0..MaxCount]}
           : n \in 0..MaxItems}

\* the statistics list of an AniList response with n entries
RespItems(n) == [i \in 1..n |-> [id |-> i, count |-> i % (MaxCount + 1)]]

FetchKeys == {"animeStats", "mangaTags", "bogus"}

AniListIds == {1, 2}

IdNet == {"ok", "timeout", "error"}

PostOutcomes == {"ok", "network", "server_error", "no_data", "missing_anime",
                 "missing_manga", "missing_social"}

FetchEnvs == [account : AniListIds \cup {NoAccount}, id_net : IdNet,
              post : PostOutcomes, items : {RespItems(n) : n \in {0, MaxItems}}]

Idle == [pc |-> "idle"]

\* produced[u][k]: the SVG of the latest successful generate_svgs request for
\* username u with key k, and the user id it was stored for
NoProduced == [data |-> NoSvg, user_id |-> 0]

NoResp == [route |-> "none"]

NoPure == [fn |-> "none"]

PureInputs ==
    {[fn |-> "form_colors", colors |-> c, done |-> FALSE] : c \in ColorForms}
    \cup {[fn |-> "get_top_items", items |-> l, top_n |-> n, done |-> FALSE]
          : l \in ItemLists, n \in 0..MaxTopN}
    \cup {[fn |-> "calculate_milestones", v |-> v, done |-> FALSE]
          : v \in 0..MaxValue}
    \cup {[fn |-> "fetch_anilist_data", keys |-> k, env |-> e, done |-> FALSE]
          : k \in SeqsUpTo(FetchKeys, MaxFormKeys), e \in FetchEnvs}

Threads == {1, 2}

Usernames == {"alice", "bob"}

db_empty ==
    /\ users = <<>>
    /\ statcards = <<>>
    /\ records = [k \in key_types |-> <<>>]

(***************************************************************************)
(* Tables (src/Program/Database/models.py as src/main.py uses them).  A    *)
(* table is the sequence of its rows in primary-key order; rows are never  *)
(* deleted.  Only users.username carries a UNIQUE constraint.  main.py     *)
(* inserts a StatCard without keys and tests "if statcard.keys", so the    *)
(* keys column is NULL from the insert to the first update.                *)
(***************************************************************************)
Expired == -1

NullKeys == [null |-> TRUE, s |-> <<>>]
KeysString(s) == [null |-> FALSE, s |-> s]

UserRows(username) == {i \in 1..Len(users) : users[i].username = username}

StatCardRows(uid) == {i \in 1..Len(statcards) : statcards[i].user_id = uid}

RecordRows(key, uid) ==
    IF key \in key_types
    THEN {i \in 1..Len(records[key]) : records[key][i].user_id = uid}
    ELSE {}

\* ",".join(keys): the separator between the keys, an empty key adds no token
RECURSIVE join(_)
join(keys) ==
    IF keys = <<>> THEN <<>>
    ELSE (IF Head(keys) = "" THEN <<>> ELSE <<Head(keys)>>)
         \o (IF Len(keys) > 1 THEN <<",">> ELSE <<>>)
         \o join(Tail(keys))

\* s.split(","): "" gives [""]
RECURSIVE split_from(_, _, _)
split_from(s, done, cur) ==
    IF s = <<>> THEN Append(done, cur)
    ELSE IF Head(s) = ","
         THEN split_from(Tail(s), Append(done, cur), "")
         ELSE split_from(Tail(s), done, Head(s))

split(s) == split_from(s, <<>>, "")

\* [key for key in successful_keys if key not in existing_keys]
RECURSIVE not_in(_, _)
not_in(keys, existing) ==
    IF keys = <<>> THEN <<>>
    ELSE (IF Head(keys) \in Range(existing) THEN <<>> ELSE <<Head(keys)>>)
         \o not_in(Tail(keys), existing)

(***************************************************************************)
(* Responses.  handle_error is registered for Exception, the base class of *)
(* werkzeug's NotFound that abort(404) raises.                             *)
(***************************************************************************)
Response(route, username, key, status) ==
    [route |-> route, username |-> username, key |-> key, status |-> status,
     body |-> NoSvg, keys |-> <<>>, headers |-> {}, error |-> ""]

\* render_template("error.html", error=str(e)), 500
handle_error(route, username, key, e) ==
    [Response(route, username, key, 500) EXCEPT !.error = e]

display_rank(key) ==
    CASE key = "animeStats" -> 0 [] key = "socialStats" -> 1
      [] key = "mangaStats" -> 2 [] key = "animeGenres" -> 3
      [] key = "animeTags" -> 4 [] key = "animeVoiceActors" -> 5
      [] key = "animeStudios" -> 6 [] key = "animeStaff" -> 7
      [] key = "mangaGenres" -> 8 [] key = "mangaTags" -> 9
      [] key = "mangaStaff" -> 10 [] OTHER -> 11

RECURSIVE insert_display(_, _)
insert_display(x, s) ==
    IF s = <<>> THEN <<x>>
    ELSE IF display_rank(Head(s)) <= display_rank(x)
         THEN <<Head(s)>> \o insert_display(x, Tail(s))
         ELSE <<x>> \o s

RECURSIVE display_sort_from(_, _)
display_sort_from(keys, acc) ==
    IF keys = <<>> THEN acc
    ELSE display_sort_from(Tail(keys), insert_display(Head(keys), acc))

display_sort(keys) == display_sort_from(keys, <<>>)

\* the responses display_svgs can give in the current database state
display_svgs(username) ==
    LET route == "display_svgs"
    IN  IF UserRows(username) = {}
        THEN {handle_error(route, username, "", "NotFound")}
        ELSE UNION {
               LET cards == StatCardRows(users[u].userid)
               IN  IF cards = {}
                   THEN {handle_error(route, username, "", "NotFound")}
                   ELSE {IF statcards[c].keys.null
                         THEN handle_error(route, username, "", "AttributeError")
                         ELSE [Response(route, username, "", 200) EXCEPT
                                 !.keys = display_sort(split(statcards[c].keys.s))]
                         : c \in cards}
               : u \in UserRows(username)}

\* get_record(key, user_id): the rows .first() can return
get_record(key, uid) == RecordRows(key, uid)

svg_response(route, username, key, headers) ==
    IF UserRows(username) = {}
    THEN {handle_error(route, username, key, "NotFound")}
    ELSE UNION {
               IF get_record(key, users[u].userid) = {}
               THEN {handle_error(route, username, key, "NotFound")}
               ELSE {IF records[key][r].data = NoSvg
                     THEN handle_error(route, username, key, "NotFound")
                     ELSE [Response(route, username, key, 200) EXCEPT
                             !.body = records[key][r].data,
                             !.headers = headers]
                     : r \in get_record(key, users[u].userid)}
           : u \in UserRows(username)}

get_svg(username, key) ==
    svg_response("get_svg", username, key,
                 {<<"Content-Type", "image/svg+xml">>})

\* get_svg_from_db without the cache headers
get_svg_from_db_cached(username, key) ==
    svg_response("get_svg_from_db", username, key,
                 {<<"Content-Type", "image/svg+xml">>})

get_svg_from_db(username, key) ==
    svg_response("get_svg_from_db", username, key,
                 {<<"Content-Type", "image/svg+xml">>,
                  <<"Cache-Control", "no-cache, must-revalidate, max-age=0">>,
                  <<"Pragma", "no-cache">>,
                  <<"Expires", "0">>})

(***************************************************************************)
(* generate_svgs, one step per database round trip.  thr[t] is the request *)
(* being served by worker t, the AniList account that its username names   *)
(* while it is served, and its SQLAlchemy session: the loaded user         *)
(* and statcard objects (attributes expire at every commit and are         *)
(* reloaded on the next access) and the record writes not yet committed.   *)
(***************************************************************************)
DbFormKeys == {"animeStatsCheckbox", "animeStats", "animeGenres", "bogus"}

DbColorForms == {<<<<"#">> \o Str000000, <<"#">> \o Str141321,
                   Str000000, <<"#", "a", "#">>>>}

DbIdNet == {"ok", "timeout"}

DbPost == {"ok", "no_data"}

DbItems == {RespItems(4), RespItems(5)}

ReadKeys == {"animeStats", "bogus"}

\* the usernames generate_svgs is requested for; the other usernames are
\* only read
GenUsernames == {"alice"}

\* pre: the committed tables when the request arrives
NewRequest(u, account, g) ==
    [pc |-> "find_user", username |-> u, account |-> account,
     g |-> g, keys |-> <<>>, colors |-> <<>>,
     user |-> 0, user_userid |-> Expired, new_userid |-> 0,
     statcard |-> 0, sc_uid |-> 0, sc_keys |-> NullKeys, sc_expired |-> TRUE,
     data |-> <<>>, userid |-> 0, i |-> 0, successful_keys |-> <<>>,
     pending |-> <<>>, pre |-> dbvars]

\* the attribute user.userid of the session's user object
user_userid(L) ==
    IF L.user_userid = Expired THEN users[L.user].userid ELSE L.user_userid

\* the attribute statcard.keys of the session's statcard object
statcard_keys(L) ==
    IF L.sc_expired THEN statcards[L.statcard].keys ELSE L.sc_keys

\* db.session.commit(): every loaded attribute expires
expire_all(L) == [L EXCEPT !.user_userid = Expired, !.sc_expired = TRUE]

\* main.py 234-243, handle_error, and the rollback of the session at teardown
Fail(t, e) ==
    /\ resp' = handle_error("generate_svgs", thr[t].username, "", e)
    /\ thr' = [thr EXCEPT ![t] = Idle]

\* a POST /StatCards/<username>/generate_svgs arrives
GenStart(t, u, account) ==
    /\ thr[t].pc = "idle"
    /\ gen < MaxGen
    /\ gen' = gen + 1
    /\ thr' = [thr EXCEPT ![t] = NewRequest(u, account, gen + 1)]
    /\ resp' = NoResp
    /\ UNCHANGED <<users, statcards, records, produced, pure>>

\* main.py 172-176
FindUser(t) ==
    LET L == thr[t] IN
    /\ L.pc = "find_user"
    /\ IF UserRows(L.username) # {}
       THEN /\ \E u \in UserRows(L.username) :
                 thr' = [thr EXCEPT ![t] = [L EXCEPT !.pc = "form", !.user = u,
                                              !.user_userid = users[u].userid]]
            /\ UNCHANGED resp
       ELSE \E net \in DbIdNet :
              LET r == get_user_id([account |-> L.account, id_net |-> net])
              IN  IF r.kind = "raise"
                  THEN Fail(t, r.exc)
                  ELSE /\ thr' = [thr EXCEPT ![t] = [L EXCEPT !.pc = "add_user",
                                                        !.new_userid = r.value]]
                       /\ UNCHANGED resp
    /\ UNCHANGED <<users, statcards, records, gen, produced, pure>>

\* INSERT INTO users: the row, or IntegrityError on the UNIQUE username
\* insert_user into a table without the UNIQUE constraint
insert_user_unconstrained(username, userid) ==
    Return(Append(users, [username |-> username, userid |-> userid]))

insert_user(username, userid) ==
    IF UserRows(username) # {}
    THEN Raise("IntegrityError")
    ELSE Return(Append(users, [username |-> username, userid |-> userid]))

\* main.py 178-180
AddUser(t) ==
    LET L == thr[t]
        r == insert_user(L.username, L.new_userid)
    IN
    /\ L.pc = "add_user"
    /\ IF r.kind = "raise"
       THEN Fail(t, r.exc) /\ UNCHANGED users
       ELSE /\ users' = r.value
            /\ thr' = [thr EXCEPT ![t] =
                          expire_all([L EXCEPT !.pc = "form", !.user = Len(users) + 1])]
            /\ UNCHANGED resp
    /\ UNCHANGED <<statcards, records, gen, produced, pure>>

\* main.py 183-201; the request's form is drawn where the handler reads it
ReadForm(t, FormKeys) ==
    LET L == thr[t] IN
    /\ L.pc = "form"
    /\ \E form \in SeqsUpTo(FormKeys, MaxFormKeys), cform \in DbColorForms :
         thr' = [thr EXCEPT ![t] = [L EXCEPT !.pc = "find_statcard",
                                      !.keys = map_keys(form),
                                      !.colors = form_colors(cform)]]
    /\ UNCHANGED <<users, statcards, records, resp, gen, produced, pure>>

\* main.py 204-206
FindStatCard(t) ==
    LET L == thr[t]
        uid == user_userid(L)
    IN
    /\ L.pc = "find_statcard"
    /\ IF StatCardRows(uid) # {}
       THEN \E c \in StatCardRows(uid) :
              thr' = [thr EXCEPT ![t] = [L EXCEPT !.pc = "fetch", !.user_userid = uid,
                                           !.statcard = c,
                                           !.sc_keys = statcards[c].keys,
                                           !.sc_expired = FALSE]]
       ELSE thr' = [thr EXCEPT ![t] = [L EXCEPT !.pc = "add_statcard",
                                         !.user_userid = uid, !.sc_uid = uid]]
    /\ UNCHANGED <<users, statcards, records, resp, gen, produced, pure>>

\* main.py 208-210
AddStatCard(t) ==
    LET L == thr[t] IN
    /\ L.pc = "add_statcard"
    /\ statcards' = Append(statcards, [user_id |-> L.sc_uid, keys |-> NullKeys])
    /\ thr' = [thr EXCEPT ![t] =
                  expire_all([L EXCEPT !.pc = "fetch", !.statcard = Len(statcards) + 1])]
    /\ UNCHANGED <<users, records, resp, gen, produced, pure>>

\* main.py 478-486
FetchData(t) ==
    LET L == thr[t]
        keys == sort_keys(L.keys)
    IN
    /\ L.pc = "fetch"
    /\ \E net \in DbIdNet, post \in DbPost, items \in DbItems :
         LET r == fetch_anilist_data(keys, [account |-> L.account,
                                            id_net |-> net, post |-> post,
                                            items |-> items])
         IN  IF r.kind = "raise"
             THEN Fail(t, r.exc)
             ELSE /\ thr' = [thr EXCEPT ![t] = [L EXCEPT !.pc = "sync_user",
                                                   !.keys = keys,
                                                   !.data = r.value.data,
                                                   !.userid = r.value.user_id]]
                  /\ UNCHANGED resp
    /\ UNCHANGED <<users, statcards, records, gen, produced, pure>>

\* main.py 489-500
SyncUser(t) ==
    LET L == thr[t] IN
    /\ L.pc = "sync_user"
    /\ IF UserRows(L.username) = {}
       THEN LET r == insert_user(L.username, L.userid)
            IN  IF r.kind = "raise"
                THEN Fail(t, r.exc) /\ UNCHANGED users
                ELSE /\ users' = r.value
                     /\ thr' = [thr EXCEPT ![t] =
                                   expire_all([L EXCEPT !.pc = "gen_key", !.i = 1,
                                                        !.user = Len(users) + 1])]
                     /\ UNCHANGED resp
       ELSE \E u \in UserRows(L.username) :
              LET L1 == IF u = L.user THEN L
                        ELSE [L EXCEPT !.user = u, !.user_userid = Expired]
                  uid == user_userid(L1)
              IN  /\ IF uid # L.userid
                     THEN /\ users' = [users EXCEPT ![u].userid = L.userid]
                          /\ thr' = [thr EXCEPT ![t] =
                                        expire_all([L1 EXCEPT !.pc = "gen_key", !.i = 1])]
                     ELSE /\ UNCHANGED users
                          /\ thr' = [thr EXCEPT ![t] =
                                        [L1 EXCEPT !.pc = "gen_key", !.i = 1,
                                                   !.user_userid = uid]]
                  /\ UNCHANGED resp
    /\ UNCHANGED <<statcards, records, gen, produced, pure>>

\* main.py 504-518, one iteration
GenKey(t) ==
    LET L == thr[t]
        key == L.keys[L.i]
        r == generate_svg(key, dict_get(L.data, key), L.colors, L.g)
        uid == user_userid(L)
    IN
    /\ L.pc = "gen_key"
    /\ L.i <= Len(L.keys)
    /\ IF r.kind = "raise"
       THEN Fail(t, r.exc)
       ELSE /\ UNCHANGED resp
            /\ IF r.value = NoSvg
               THEN thr' = [thr EXCEPT ![t] = [L EXCEPT !.i = L.i + 1]]
               ELSE LET L1 == [L EXCEPT !.i = L.i + 1, !.user_userid = uid,
                                       !.successful_keys = Append(@, key)]
                    IN  IF key \notin key_types
                        THEN thr' = [thr EXCEPT ![t] = L1]
                        ELSE IF key \in DOMAIN L.pending
                        THEN thr' = [thr EXCEPT ![t] =
                                        [L1 EXCEPT !.pending[key].data = r.value]]
                        ELSE IF RecordRows(key, uid) # {}
                        THEN \E row \in RecordRows(key, uid) :
                               thr' = [thr EXCEPT ![t] = [L1 EXCEPT !.pending =
                                         (key :> [row |-> row, user_id |-> uid,
                                                  data |-> r.value]) @@ @]]
                        ELSE thr' = [thr EXCEPT ![t] = [L1 EXCEPT !.pending =
                                       (key :> [row |-> 0, user_id |-> uid,
                                                data |-> r.value]) @@ @]]
    /\ UNCHANGED <<users, statcards, records, gen, produced, pure>>

\* flush_records that loses the assignment record.data = svg_data
flush_records_insert_only(pending) ==
    [k \in key_types |->
        IF k \notin DOMAIN pending THEN records[k]
        ELSE IF pending[k].row = 0
        THEN Append(records[k], [user_id |-> pending[k].user_id,
                                 data |-> pending[k].data])
        ELSE records[k]]

\* the UPDATEs and INSERTs of the session's records at the commit
flush_records(pending) ==
    [k \in key_types |->
        IF k \notin DOMAIN pending THEN records[k]
        ELSE IF pending[k].row = 0
        THEN Append(records[k], [user_id |-> pending[k].user_id,
                                 data |-> pending[k].data])
        ELSE [records[k] EXCEPT ![pending[k].row].data = pending[k].data]]

\* all_keys that stores the request's successful keys in place of the stored
\* ones
all_keys_replacing(stored, successful_keys) == successful_keys

\* main.py 217-220
all_keys(stored, successful_keys) ==
    LET existing_keys == IF stored.null \/ stored.s = <<>> THEN <<>>
                         ELSE split(stored.s)
    IN  existing_keys \o not_in(successful_keys, existing_keys)

\* main.py 216-226; the keys of the redirect are the request's successful keys
UpdateKeys(t) ==
    LET L == thr[t] IN
    /\ L.pc = "gen_key"
    /\ L.i > Len(L.keys)
    /\ statcards' = [statcards EXCEPT ![L.statcard].keys =
                        KeysString(join(all_keys(statcard_keys(L), L.successful_keys)))]
    /\ records' = flush_records(L.pending)
    /\ resp' = [Response("generate_svgs", L.username, "", 302) EXCEPT
                  !.keys = L.successful_keys]
    /\ produced' = [produced EXCEPT ![L.username] =
                      [k \in key_types |->
                         IF k \in DOMAIN L.pending
                         THEN [data |-> L.pending[k].data,
                               user_id |-> L.pending[k].user_id]
                         ELSE @[k]]]
    /\ thr' = [thr EXCEPT ![t] = Idle]
    /\ UNCHANGED <<users, gen, pure>>

GenStep(t, FormKeys) ==
    \/ FindUser(t)
    \/ AddUser(t)
    \/ ReadForm(t, FormKeys)
    \/ FindStatCard(t)
    \/ AddStatCard(t)
    \/ FetchData(t)
    \/ SyncUser(t)
    \/ GenKey(t)
    \/ UpdateKeys(t)

(***************************************************************************)
(* The GET routes, each a single request served between two others         *)
(***************************************************************************)
AllIdle == \A t \in Threads : thr[t].pc = "idle"

ReadUnchanged == UNCHANGED <<users, statcards, records, thr, gen, produced, pure>>

\* GET /StatCards/<username>
DisplaySvgs(username) ==
    /\ AllIdle
    /\ resp' \in display_svgs(username)
    /\ ReadUnchanged

\* GET /StatCards/get_svg/<username>/<key>
GetSvg(username, key) ==
    /\ AllIdle
    /\ resp' \in get_svg(username, key)
    /\ ReadUnchanged

\* GET /StatCards/<username>/<key>.svg
GetSvgFromDb(username, key) ==
    /\ AllIdle
    /\ resp' \in get_svg_from_db(username, key)
    /\ ReadUnchanged

\* render_template of a page without placeholders
\* static_page of a template that fails to render
static_page_failing(route) == handle_error(route, "", "", "TemplateNotFound")

static_page(route) == Response(route, "", "", 200)

StatCards ==
    /\ AllIdle
    /\ resp' = static_page("stat_cards")
    /\ ReadUnchanged

Badges ==
    /\ AllIdle
    /\ resp' = static_page("badges")
    /\ ReadUnchanged

Faq ==
    /\ AllIdle
    /\ resp' = static_page("faq")
    /\ ReadUnchanged

Home ==
    /\ AllIdle
    /\ resp' = static_page("home")
    /\ ReadUnchanged

(***************************************************************************)
(* Spec: the requests are served one after the other                       *)
(***************************************************************************)
Init ==
    /\ db_empty
    /\ thr = [t \in Threads |-> Idle]
    /\ resp = NoResp
    /\ gen = 0
    /\ produced = [u \in Usernames |-> [k \in key_types |-> NoProduced]]
    /\ pure = NoPure

GenerateSvgs ==
    \E u \in GenUsernames, account \in AniListIds \cup {NoAccount} :
         AllIdle /\ GenStart(1, u, account)

Next ==
    \/ GenerateSvgs
    \/ GenStep(1, DbFormKeys)
    \/ \E u \in Usernames : DisplaySvgs(u)
    \/ \E u \in Usernames, k \in ReadKeys : GetSvg(u, k)
    \/ \E u \in Usernames, k \in ReadKeys : GetSvgFromDb(u, k)
    \/ StatCards
    \/ Badges
    \/ Faq
    \/ Home

Spec == Init /\ [][Next]_vars

(***************************************************************************)
(* SpecConc: waitress serves with several worker threads (--threads=16);   *)
(* one generate_svgs request per worker, all for the same username, their  *)
(* steps interleaved.  Every statement reads the committed rows (READ      *)
(* COMMITTED) and the session's own uncommitted writes.                    *)
(***************************************************************************)
ConcUser == "alice"

ConcAccount == 1

ConcInit ==
    /\ db_empty
    /\ thr = [t \in Threads |-> Idle]
    /\ resp = NoResp
    /\ gen = 0
    /\ produced = [u \in Usernames |-> [k \in key_types |-> NoProduced]]
    /\ pure = NoPure

ConcFormKeys == {"animeStats"}

ConcStart ==
    \E t \in Threads :
         gen < Cardinality(Threads) /\ GenStart(t, ConcUser, ConcAccount)

ConcNext ==
    \/ ConcStart
    \/ \E t \in Threads : GenStep(t, ConcFormKeys)

SpecConc == ConcInit /\ [][ConcNext]_vars

PureInit ==
    /\ db_empty
    /\ thr = [t \in Threads |-> Idle]
    /\ resp = NoResp
    /\ gen = 0
    /\ produced = [u \in Usernames |-> [k \in key_types |-> NoProduced]]
    /\ pure \in PureInputs

PureUnchanged == UNCHANGED <<users, statcards, records, thr, resp, gen, produced>>

ApplyFormColors ==
    /\ pure.fn = "form_colors" /\ ~pure.done
    /\ pure' = [pure EXCEPT !.done = TRUE] @@ [res |-> form_colors(pure.colors)]
    /\ PureUnchanged

ApplyGetTopItems ==
    /\ pure.fn = "get_top_items" /\ ~pure.done
    /\ pure' = [pure EXCEPT !.done = TRUE]
               @@ [res |-> get_top_items(pure.items, pure.top_n)]
    /\ PureUnchanged

ApplyCalculateMilestones ==
    /\ pure.fn = "calculate_milestones" /\ ~pure.done
    /\ pure' = [pure EXCEPT !.done = TRUE] @@ [res |-> calculate_milestones(pure.v)]
    /\ PureUnchanged

ApplyFetchAnilistData ==
    /\ pure.fn = "fetch_anilist_data" /\ ~pure.done
    /\ pure' = [pure EXCEPT !.done = TRUE]
               @@ [res |-> fetch_anilist_data(pure.keys, pure.env)]
    /\ PureUnchanged

PureNext ==
    \/ ApplyFormColors
    \/ ApplyGetTopItems
    \/ ApplyCalculateMilestones
    \/ ApplyFetchAnilistData

SpecPure == PureInit /\ [][PureNext]_vars

(***************************************************************************)
(* Properties                                                              *)
(***************************************************************************)

\* C1: once generate_svgs has succeeded for a username with key k, get_svg
\* and get_svg_from_db for that username and k return the SVG of that request
\* until a later successful generation for the user and key replaces it: they
\* answer 200 with the SVG of the latest such request for the username or
\* with one that a later request stored.
C1_ServesProduced ==
    AllIdle =>
      \A u \in Usernames, k \in key_types :
        produced[u][k] # NoProduced =>
          \A r \in get_svg(u, k) \cup get_svg_from_db(u, k) :
            /\ r.status = 200
            /\ r.body = produced[u][k].data \/ r.body.gen > produced[u][k].data.gen

\* C1 as amended: the same, for as long as the userid stored for the username
\* is the one the SVG was stored for.
C1_ServesProducedOfUserid ==
    AllIdle =>
      \A u \in Usernames, k \in key_types :
        /\ produced[u][k] # NoProduced
        /\ \A i \in UserRows(u) : users[i].userid = produced[u][k].user_id
        => \A r \in get_svg(u, k) \cup get_svg_from_db(u, k) :
             /\ r.status = 200
             /\ r.body = produced[u][k].data \/ r.body.gen > produced[u][k].data.gen

C1_Witness ==
    /\ AllIdle /\ gen = 2
    /\ resp.route = "get_svg" /\ resp.status = 200
    /\ resp.body.gen = 1
    /\ resp.body = produced[resp.username][resp.key].data

\* C2: display_svgs, get_svg and get_svg_from_db answer 404 when the username
\* has no User row, and when the user has no StatCard (display_svgs) or no
\* record with non-empty data for the key (get_svg, get_svg_from_db).
C2_NotFound ==
    /\ resp.route = "display_svgs"
         /\ (\A u \in UserRows(resp.username) : StatCardRows(users[u].userid) = {})
       => resp.status = 404
    /\ resp.route \in {"get_svg", "get_svg_from_db"}
         /\ (\A u \in UserRows(resp.username) :
               \A r \in RecordRows(resp.key, users[u].userid) :
                 records[resp.key][r].data = NoSvg)
       => resp.status = 404

\* C3: when generate_svgs has returned its redirect, display_svgs for the
\* username answers 200 and lists every successful key of the request.
C3_RedirectDisplays ==
    resp.route = "generate_svgs" /\ resp.status = 302 =>
      \A r \in display_svgs(resp.username) :
        r.status = 200 /\ Range(resp.keys) \subseteq Range(r.keys)

\* C4: fetch_anilist_data returns a dictionary or None, None when AniList
\* answers without data, with a server error or with a field missing, and
\* raises nothing but requests.exceptions.RequestException.
C4_FetchContract ==
    pure.fn = "fetch_anilist_data" /\ pure.done =>
      /\ pure.res.kind = "return" => pure.res.value.type \in {"dict", "None"}
      /\ pure.res.kind = "raise" => pure.res.exc \in RequestExceptions
      /\ get_user_id(pure.env).kind = "return"
           /\ pure.env.post \in {"server_error", "no_data", "missing_anime",
                                 "missing_manga", "missing_social"}
         => pure.res.kind = "return" /\ pure.res.value.type = "None"

\* the colour without its leading '#' characters
Unhashed(s) ==
    LET n == Cardinality({i \in 1..Len(s) : \A j \in 1..i : s[j] = "#"})
    IN  [i \in 1..(Len(s) - n) |-> s[n + i]]

\* C5: generate_svgs renders with exactly 4 colours: the default palette
\* unless the form has exactly 4 colours, else each colour without its leading
\* '#', the colour 000000 replaced by the default of its position.
C5_Colors ==
    pure.fn = "form_colors" /\ pure.done =>
      /\ Len(pure.res) = 4
      /\ Len(pure.colors) # 4 =>
           pure.res = <<Strfe428e, Str141321, Stra9fef7, Strfe428e>>
      /\ Len(pure.colors) = 4 =>
           \A i \in 1..4 :
             pure.res[i] = IF Unhashed(pure.colors[i]) = Str000000
                           THEN <<Strfe428e, Str141321, Stra9fef7, Strfe428e>>[i]
                           ELSE Unhashed(pure.colors[i])

C5_Witness ==
    /\ pure.fn = "form_colors" /\ pure.done
    /\ Len(pure.colors) = 4
    /\ pure.colors[1] = <<"#", "#">> \o Str000000 /\ pure.res[1] = Strfe428e
    /\ pure.colors[2] = <<"#">> \o Str141321 /\ pure.res[2] = Str141321
    /\ pure.colors[3] = <<"#", "a", "#">> /\ pure.res[3] = <<"a", "#">>

\* C6: get_top_items returns min(n, len(items)) of the items in
\* non-increasing order of count, no item left out counts more than one
\* returned, items of equal count keep their input order; the top lists that
\* fetch_anime_data and fetch_manga_data store have at most 5 entries.
C6_TopItems ==
    /\ pure.fn = "get_top_items" /\ pure.done =>
         LET res == pure.res
             items == pure.items
         IN  /\ Len(res) = Min(pure.top_n, Len(items))
             /\ \A i \in 1..Len(res) : res[i] \in Range(items)
             /\ \A i, j \in 1..Len(res) : i < j =>
                  /\ res[i] # res[j]
                  /\ res[i].count >= res[j].count
                  /\ res[i].count = res[j].count => res[i].id < res[j].id
             /\ \A x \in Range(items) \ Range(res) :
                  \A y \in Range(res) :
                    x.count <= y.count /\ (x.count = y.count => y.id < x.id)
    /\ pure.fn = "fetch_anilist_data" /\ pure.done /\ pure.res.kind = "return" =>
         \A k \in DOMAIN pure.res.value.data :
           Len(pure.res.value.data[k].list) <= 5

C6_Witness ==
    /\ pure.fn = "get_top_items" /\ pure.done
    /\ pure.top_n = 5 /\ Len(pure.items) = 6
    /\ pure.items[1].count = 0 /\ pure.items[2].count = 1
    /\ pure.items[6].count = 1
    /\ pure.res[1].id = 2 /\ pure.res[2].id = 6 /\ pure.res[5].id = 4

\* the milestones 100, 250, 500, 750, 1000, 2000, 3000, ...
Milestones ==
    {100, 250, 500, 750} \cup {1000 * n : n \in 1..((MaxValue \div 1000) + 2)}

\* C7: for a count v >= 0, previous is the largest milestone below v (0 when
\* there is none), current the smallest milestone >= v, current > previous
\* and 0 <= v - previous <= current - previous.
C7_Milestones ==
    pure.fn = "calculate_milestones" /\ pure.done =>
      LET v == pure.v
          previous == pure.res.previous_milestone
          current == pure.res.current_milestone
          below == {m \in Milestones : m < v}
      IN  /\ IF below = {} THEN previous = 0
             ELSE previous \in below /\ \A m \in below : m <= previous
          /\ current \in Milestones /\ current >= v
          /\ \A m \in Milestones : m >= v => current <= m
          /\ current > previous
          /\ ~pure.res.zero_division
          /\ 0 <= v - previous /\ v - previous <= current - previous

C7_Witness ==
    /\ pure.fn = "calculate_milestones" /\ pure.done
    /\ pure.v = 2001
    /\ pure.res.previous_milestone = 2000
    /\ pure.res.current_milestone = 3000

StaticRoutes == {"stat_cards", "badges", "faq", "home"}

\* C8: GET /, /faq, /StatCards and /Badges answer 200 and leave every row of
\* every table as it was, in every database state.
C8_StaticPages ==
    [][resp'.route \in StaticRoutes /\ resp' # resp =>
         /\ resp'.status = 200
         /\ users' = users /\ statcards' = statcards /\ records' = records]_vars

C8_Witness ==
    /\ resp.route = "faq" /\ resp.status = 200
    /\ users # <<>> /\ statcards # <<>> /\ records["animeStats"] # <<>>

\* C9: when the user exists and has a record with non-empty data for the key,
\* get_svg_from_db answers with that data, Content-Type image/svg+xml,
\* Cache-Control no-cache, must-revalidate, max-age=0, Pragma no-cache and
\* Expires 0.
C9_SvgFromDb ==
    resp.route = "get_svg_from_db"
      /\ (\E u \in UserRows(resp.username) :
            \E r \in RecordRows(resp.key, users[u].userid) :
              records[resp.key][r].data # NoSvg)
    => /\ resp.status = 200
       /\ \E u \in UserRows(resp.username) :
            \E r \in RecordRows(resp.key, users[u].userid) :
              resp.body = records[resp.key][r].data /\ resp.body # NoSvg
       /\ resp.headers = {<<"Content-Type", "image/svg+xml">>,
                          <<"Cache-Control", "no-cache, must-revalidate, max-age=0">>,
                          <<"Pragma", "no-cache">>,
                          <<"Expires", "0">>}

C9_Witness ==
    /\ resp.route = "get_svg_from_db" /\ resp.status = 200
    /\ resp.body.svg = "card" /\ resp.body.gen = 2

Finished == AllIdle /\ gen = Cardinality(Threads)

\* C10: two concurrent generate_svgs requests for one username end with at
\* most one User row for the username, at most one StatCard row for the
\* user's id and at most one record per card type for the user's id.
C10_NoDuplicates ==
    Finished =>
      /\ Cardinality(UserRows(ConcUser)) <= 1
      /\ \A u \in UserRows(ConcUser) :
           /\ Cardinality(StatCardRows(users[u].userid)) <= 1
           /\ \A k \in key_types :
                Cardinality(RecordRows(k, users[u].userid)) <= 1

\* C10 as amended: two concurrent generate_svgs requests for one username end
\* with at most one User row for the username.
C10_OneUserRow ==
    Finished => Cardinality(UserRows(ConcUser)) <= 1

C10_Witness ==
    /\ Finished
    /\ resp.route = "generate_svgs" /\ resp.error = "IntegrityError"
    /\ Cardinality(UserRows(ConcUser)) = 1

\* a step that ends the generate_svgs request of worker t with an error
Failed(t) ==
    /\ thr[t].pc # "idle" /\ thr'[t].pc = "idle"
    /\ resp'.route = "generate_svgs" /\ resp'.status = 500

\* C11: when generate_svgs fails with an exception, the committed tables are
\* those of before the request: no User or StatCard row added, no record
\* added or changed, StatCard.keys unchanged.
C11_FailureRestores ==
    [][\A t \in Threads : Failed(t) => dbvars' = thr[t].pre]_vars

\* C12: in every committed database state between requests, each StatCard
\* that display_svgs can find for a user has a non-null keys value, and for
\* every key it lists get_svg finds a record with non-empty data.
C12_ListedKeysServed ==
    AllIdle =>
      \A u \in Usernames :
        \A i \in UserRows(u) :
          \A c \in StatCardRows(users[i].userid) :
            /\ ~statcards[c].keys.null
            /\ \A r \in display_svgs(u) :
                 r.status = 200 =>
                   \A j \in 1..Len(r.keys) :
                     \A g \in get_svg(u, r.keys[j]) : g.status = 200

\* a step that ends the generate_svgs request of worker t with its redirect
Succeeded(t) ==
    /\ thr[t].pc # "idle" /\ thr'[t].pc = "idle"
    /\ resp'.route = "generate_svgs" /\ resp'.status = 302

\* the keys a keys column lists; NULL and the empty string list none
keys_list(k) == IF k.null \/ k.s = <<>> THEN <<>> ELSE split(k.s)

\* the keys of row c of a statcards table, none when the row does not exist
keys_of(table, c) == IF c <= Len(table) THEN keys_list(table[c].keys) ELSE <<>>

\* C13: after a successful generate_svgs StatCard.keys is the keys stored
\* before the request, in unchanged order, followed by the request's
\* successful keys that were not already stored; no step of any request
\* removes a stored key.
C13_KeysAppended ==
    [][/\ \A t \in Threads :
            Succeeded(t) =>
              LET c == thr[t].statcard
                  before == keys_of(thr[t].pre[2], c)
              IN  keys_of(statcards', c) =
                    before \o SelectSeq(thr[t].successful_keys,
                                        LAMBDA k : k \notin Range(before))
       /\ \A d \in 1..Len(statcards) :
            Range(keys_of(statcards, d)) \subseteq Range(keys_of(statcards', d))
      ]_vars

C13_Witness ==
    /\ AllIdle /\ gen = 2
    /\ resp.route = "generate_svgs" /\ resp.status = 302
    /\ resp.keys = <<"animeStats", "animeGenres">>
    /\ \E c \in 1..Len(statcards) :
         statcards[c].keys = KeysString(<<"animeGenres", ",", "animeStats">>)

\* C14: StatCard.keys never lists the same key twice, whatever the forms of
\* the generate_svgs requests repeat.
C14_NoDuplicateKeys ==
    \A c \in 1..Len(statcards) :
      LET l == keys_of(statcards, c)
      IN  \A i, j \in 1..Len(l) : i # j => l[i] # l[j]

\* C15: every key generate_svgs stores in StatCard.keys is one of the 11
\* known card types: a key outside them gets no fetched data, generate_svg
\* returns None for it, it is not among the successful keys, and no
\* placeholder SVG is produced or stored.
C15_KnownKeysOnly ==
    /\ \A c \in 1..Len(statcards) : Range(keys_of(statcards, c)) \subseteq key_types
    /\ \A k \in key_types :
         \A r \in 1..Len(records[k]) : records[k][r].data.svg # "placeholder"
    /\ \A t \in Threads :
         thr[t].pc = "gen_key" =>
           LET L == thr[t] IN
           /\ Range(L.successful_keys) \subseteq key_types
           /\ \A k \in DOMAIN L.pending : L.pending[k].data.svg # "placeholder"
           /\ \A j \in 1..Len(L.keys) :
                L.keys[j] \notin key_types =>
                  /\ dict_get(L.data, L.keys[j]) = NoneValue
                  /\ generate_svg(L.keys[j], dict_get(L.data, L.keys[j]),
                                  L.colors, L.g) = Return(NoSvg)

C15_Witness ==
    /\ thr[1].pc = "gen_key" /\ thr[1].i > Len(thr[1].keys)
    /\ thr[1].keys = <<"animeStats", "bogus">>
    /\ thr[1].successful_keys = <<"animeStats">>

====
